---- MODULE Spec2Model ----
(***************************************************************************)
(* Model of asymintervals.aingraph.AINGraph: construction of the relation  *)
(* graph over a collection of AIN objects, the unsupported add_ain, and    *)
(* the level packing done by plot_intervals.                               *)
(*                                                                         *)
(* Python indices are kept 0-based: element i of a Python list is element  *)
(* i+1 of the sequence that models it.                                     *)
(***************************************************************************)
EXTENDS Integers, Sequences, FiniteSets, TLC

\* ---------------------------------------------------------------- bounds
MaxLen == 3      \* longest collection handed to the constructor
MaxBound == 1    \* interval bounds are drawn from 0..MaxBound
Scale == 2       \* a preference degree d stands for the real number d/Scale
MaxRuns == 2     \* instances constructed in a row from the same collection

\* ------------------------------------------------------- program constants
OrdA == 65       \* ord('A')
PaletteLen == 10 \* len(colors), the colour cycle read from plt.rcParams

\* ------------------------------------------------------------ input values
AIN(l, u) == [kind |-> "AIN", lower |-> l, upper |-> u]

NotAIN == [kind |-> "other", lower |-> 0, upper |-> 0]

IsAIN(x) == x.kind = "AIN"

ValidAINs == UNION {{AIN(l, u) : u \in l..MaxBound} : l \in 0..MaxBound}

Elements == ValidAINs \cup {NotAIN}

DocExample == <<AIN(0, 2), AIN(1, 5), AIN(3, 4)>>

\* a seed followed by two intervals that clear the seed and overlap each other
PackExample == <<AIN(0, 1), AIN(2, 4), AIN(3, 5)>>

Inputs == UNION {[1..n -> Elements] : n \in 0..MaxLen} \cup {DocExample, PackExample}

RangeOf(s) == {s[x] : x \in DOMAIN s}

\* --------------------------------------- the AIN comparison (asymintervals.AIN)
\* The degrees a preference comparison of a with b may return: 0 when a lies
\* wholly at or below b, Scale (the real 1) when a lies wholly at or above b,
\* and a value strictly between the two when the intervals properly overlap.
Degrees(a, b) ==
    IF a.upper <= b.lower THEN {0}
    ELSE IF a.lower >= b.upper THEN {Scale}
    ELSE 1..(Scale - 1)

\* The pairs of values the program can compare: AINs at two different places
ComparedPairs(s) ==
    {<<s[q[1]], s[q[2]]>> : q \in {r \in (DOMAIN s) \X (DOMAIN s) : r[1] # r[2]}}

PrefTables(s) ==
    LET dom == {p \in ComparedPairs(s) : IsAIN(p[1]) /\ IsAIN(p[2])}
        open == {p \in dom : Cardinality(Degrees(p[1], p[2])) > 1}
    IN {[p \in dom |-> IF p \in open THEN c[p] ELSE CHOOSE d \in Degrees(p[1], p[2]) : TRUE] : c \in [open -> 1..(Scale - 1)]}

VARIABLES
    input,        \* the list_of_ains argument of the constructor
    pref,         \* the comparison results of the AIN values of input
    pc,           \* position of the running call
    self_dict,    \* the attributes of the instance that have been set
    list_of_ains, \* self.list_of_ains
    graph,        \* self.graph
    k,            \* position of the constructor's loop in combinations(...)
    levels,       \* plot_intervals: levels
    added_ains,   \* plot_intervals: added_ains
    i,            \* plot_intervals: outer loop index
    j,            \* plot_intervals: inner loop index
    packed,       \* the level-packing loop of the current instance has finished
    err,          \* exception raised by the last call, "none" if it returned
    lastCall,     \* the method called last
    run,          \* number of the instance being constructed / used
    prev          \* what the previous instance produced from the same input

vars == <<input, pref, pc, self_dict, list_of_ains, graph, k, levels, added_ains, i, j, packed, err, lastCall, run, prev>>

\* a > b and a < b of two AIN objects
AIN_gt(a, b) == pref[<<a, b>>]

AIN_lt(a, b) == pref[<<b, a>>]

\* ------------------------------------------------------------- nx.Graph
EmptyGraph == [nodes |-> <<>>, weight |-> <<>>, attr |-> <<>>]

NodeSet(g) == RangeOf(g.nodes)

AddNode(nodes, n) == IF n \in RangeOf(nodes) THEN nodes ELSE Append(nodes, n)

\* Graph.add_edge(u, v, weight=w): both end points become nodes, u first
add_edge(g, u, v, w) ==
    [g EXCEPT !.nodes = AddNode(AddNode(g.nodes, u), v),
              !.weight = [e \in (DOMAIN g.weight) \cup {{u, v}} |-> IF e = {u, v} THEN w ELSE g.weight[e]]]

\* itertools.combinations(enumerate(list_of_ains, 0), 2), as index pairs
RECURSIVE CombFrom(_, _, _)
CombFrom(n, a, b) ==
    IF a >= n - 1 THEN <<>>
    ELSE IF b >= n THEN CombFrom(n, a + 1, a + 2)
    ELSE <<<<a, b>>>> \o CombFrom(n, a, b + 1)

combinations(n) == CombFrom(n, 0, 1)

NoPrev == [graph |-> EmptyGraph, levels |-> <<>>, packed |-> FALSE]

Init ==
    /\ input \in Inputs
    /\ pref \in PrefTables(input)
    /\ pc = "new"
    /\ self_dict = {}
    /\ list_of_ains = <<>>
    /\ graph = EmptyGraph
    /\ k = 1
    /\ levels = <<>>
    /\ added_ains = {}
    /\ i = 0
    /\ j = 0
    /\ packed = FALSE
    /\ err = "none"
    /\ lastCall = "none"
    /\ run = 1
    /\ prev = NoPrev

\* ------------------------------------------------------------ __init__
\* the attributes are assigned before the elements are checked
CtorValidate_late ==
    /\ pc = "new"
    /\ lastCall' = "__init__"
    /\ list_of_ains' = input
    /\ graph' = EmptyGraph
    /\ self_dict' = {"list_of_ains", "graph"}
    /\ k' = 1
    /\ IF \A x \in DOMAIN input : IsAIN(input[x])
       THEN /\ pc' = "ctor_edges"
            /\ err' = "none"
       ELSE /\ err' = "ValueError"
            /\ pc' = "failed"
    /\ UNCHANGED <<input, pref, levels, added_ains, i, j, packed, run, prev>>

\* lines 47-51: the isinstance check, then the two attribute assignments
CtorValidate ==
    /\ pc = "new"
    /\ lastCall' = "__init__"
    /\ IF \A x \in DOMAIN input : IsAIN(input[x])
       THEN /\ list_of_ains' = input
            /\ graph' = EmptyGraph
            /\ self_dict' = {"list_of_ains", "graph"}
            /\ k' = 1
            /\ pc' = "ctor_edges"
            /\ err' = "none"
       ELSE /\ err' = "ValueError"
            /\ pc' = "failed"
            /\ UNCHANGED <<list_of_ains, graph, self_dict, k>>
    /\ UNCHANGED <<input, pref, levels, added_ains, i, j, packed, run, prev>>

\* the edge test is w >= 0 in place of w > 0
CtorEdge_nonneg ==
    /\ pc = "ctor_edges"
    /\ LET pairs == combinations(Len(list_of_ains))
       IN IF k > Len(pairs)
          THEN /\ pc' = "ctor_attrs"
               /\ UNCHANGED <<graph, k>>
          ELSE LET ci == pairs[k][1]
                   cj == pairs[k][2]
                   a == list_of_ains[ci + 1]
                   b == list_of_ains[cj + 1]
                   w == AIN_gt(a, b) * AIN_lt(a, b)
               IN /\ graph' = IF w >= 0 THEN add_edge(graph, ci, cj, w) ELSE graph
                  /\ k' = k + 1
                  /\ pc' = pc
    /\ UNCHANGED <<input, pref, self_dict, list_of_ains, levels, added_ains, i, j, packed, err, lastCall, run, prev>>

\* lines 52-55: one iteration of the loop over the pairs
CtorEdge ==
    /\ pc = "ctor_edges"
    /\ LET pairs == combinations(Len(list_of_ains))
       IN IF k > Len(pairs)
          THEN /\ pc' = "ctor_attrs"
               /\ UNCHANGED <<graph, k>>
          ELSE LET ci == pairs[k][1]
                   cj == pairs[k][2]
                   a == list_of_ains[ci + 1]
                   b == list_of_ains[cj + 1]
                   w == AIN_gt(a, b) * AIN_lt(a, b)
               IN /\ graph' = IF w > 0 THEN add_edge(graph, ci, cj, w) ELSE graph
                  /\ k' = k + 1
                  /\ pc' = pc
    /\ UNCHANGED <<input, pref, self_dict, list_of_ains, levels, added_ains, i, j, packed, err, lastCall, run, prev>>

\* lines 57-61: label and colour of the nodes the graph holds
NodeAttrs(g, n) ==
    LET m == IF Len(g.nodes) < n THEN Len(g.nodes) ELSE n
        zipped == {g.nodes[x] : x \in 1..m}
    IN [v \in zipped |-> [label |-> OrdA + v, color |-> v % PaletteLen]]

CtorAttrs ==
    /\ pc = "ctor_attrs"
    /\ graph' = [graph EXCEPT !.attr = NodeAttrs(graph, Len(list_of_ains))]
    /\ pc' = "ready"
    /\ UNCHANGED <<input, pref, self_dict, list_of_ains, k, levels, added_ains, i, j, packed, err, lastCall, run, prev>>

\* ------------------------------------------------------------- add_ain
\* add_ain implemented: the new element is checked and stored
AddAin_appends(new_ain) ==
    /\ pc = "ready"
    /\ lastCall' = "add_ain"
    /\ IF IsAIN(new_ain)
       THEN /\ err' = "none"
            /\ list_of_ains' = Append(list_of_ains, new_ain)
       ELSE /\ err' = "ValueError"
            /\ UNCHANGED list_of_ains
    /\ UNCHANGED <<input, pref, pc, self_dict, graph, k, levels, added_ains, i, j, packed, run, prev>>

\* line 98
AddAin(new_ain) ==
    /\ pc = "ready"
    /\ lastCall' = "add_ain"
    /\ err' = "NotImplementedError"
    /\ UNCHANGED <<input, pref, pc, self_dict, list_of_ains, graph, k, levels, added_ains, i, j, packed, run, prev>>

\* ------------------------------------------------------ plot_intervals
\* the test without its two comparisons of the bounds
Skipped_overlap_only(a, b) == AIN_gt(a, b) * AIN_lt(a, b) # 0

\* line 198: the test that keeps b out of the level opened by a
Skipped(a, b) ==
    \/ AIN_gt(a, b) * AIN_lt(a, b) # 0
    \/ a.lower = b.upper
    \/ a.upper = b.lower

\* lines 180-184
PlotIntervals ==
    /\ pc = "ready"
    /\ lastCall' = "plot_intervals"
    /\ err' = "none"
    /\ levels' = <<>>
    /\ added_ains' = {}
    /\ i' = 0
    /\ j' = 0
    /\ packed' = FALSE
    /\ pc' = "pack_outer"
    /\ UNCHANGED <<input, pref, self_dict, list_of_ains, graph, k, run, prev>>

\* the outer loop without its test of added_ains
PackOuter_noskip ==
    /\ pc = "pack_outer"
    /\ IF i >= Len(list_of_ains)
       THEN /\ pc' = "render"
            /\ packed' = TRUE
            /\ UNCHANGED <<levels, added_ains, i, j>>
       ELSE /\ levels' = Append(levels, <<i>>)
            /\ added_ains' = added_ains \cup {i}
            /\ j' = 0
            /\ pc' = "pack_inner"
            /\ UNCHANGED <<i, packed>>
    /\ UNCHANGED <<input, pref, self_dict, list_of_ains, graph, k, err, lastCall, run, prev>>

\* lines 185-191: one iteration of the outer loop, up to the inner loop
PackOuter ==
    /\ pc = "pack_outer"
    /\ IF i >= Len(list_of_ains)
       THEN /\ pc' = "render"
            /\ packed' = TRUE
            /\ UNCHANGED <<levels, added_ains, i, j>>
       ELSE IF i \in added_ains
       THEN /\ i' = i + 1
            /\ UNCHANGED <<pc, packed, levels, added_ains, j>>
       ELSE /\ levels' = Append(levels, <<i>>)
            /\ added_ains' = added_ains \cup {i}
            /\ j' = 0
            /\ pc' = "pack_inner"
            /\ UNCHANGED <<i, packed>>
    /\ UNCHANGED <<input, pref, self_dict, list_of_ains, graph, k, err, lastCall, run, prev>>

\* the inner loop leaves at the first element it skips (break for continue)
PackInner_break ==
    /\ pc = "pack_inner"
    /\ IF j >= Len(list_of_ains)
       THEN /\ i' = i + 1
            /\ pc' = "pack_outer"
            /\ UNCHANGED <<levels, added_ains, j>>
       ELSE IF j \in added_ains
       THEN /\ j' = j + 1
            /\ UNCHANGED <<pc, levels, added_ains, i>>
       ELSE IF Skipped(list_of_ains[i + 1], list_of_ains[j + 1])
       THEN /\ j' = Len(list_of_ains)
            /\ UNCHANGED <<pc, levels, added_ains, i>>
       ELSE /\ levels' = [levels EXCEPT ![Len(levels)] = Append(@, j)]
            /\ added_ains' = added_ains \cup {j}
            /\ j' = j + 1
            /\ UNCHANGED <<pc, i>>
    /\ UNCHANGED <<input, pref, self_dict, list_of_ains, graph, k, packed, err, lastCall, run, prev>>

\* the inner loop takes the candidates in no fixed order (a set for the list)
PackInner_unordered ==
    /\ pc = "pack_inner"
    /\ LET cands == {x \in 0..(Len(list_of_ains) - 1) :
                        x \notin added_ains /\ ~Skipped(list_of_ains[i + 1], list_of_ains[x + 1])}
       IN IF cands = {}
          THEN /\ i' = i + 1
               /\ pc' = "pack_outer"
               /\ UNCHANGED <<levels, added_ains, j>>
          ELSE \E x \in cands :
               /\ levels' = [levels EXCEPT ![Len(levels)] = Append(@, x)]
               /\ added_ains' = added_ains \cup {x}
               /\ j' = x + 1
               /\ UNCHANGED <<pc, i>>
    /\ UNCHANGED <<input, pref, self_dict, list_of_ains, graph, k, packed, err, lastCall, run, prev>>

\* lines 194-202: one iteration of the inner loop
PackInner ==
    /\ pc = "pack_inner"
    /\ IF j >= Len(list_of_ains)
       THEN /\ i' = i + 1
            /\ pc' = "pack_outer"
            /\ UNCHANGED <<levels, added_ains, j>>
       ELSE IF j \in added_ains \/ Skipped(list_of_ains[i + 1], list_of_ains[j + 1])
       THEN /\ j' = j + 1
            /\ UNCHANGED <<pc, levels, added_ains, i>>
       ELSE /\ levels' = [levels EXCEPT ![Len(levels)] = Append(@, j)]
            /\ added_ains' = added_ains \cup {j}
            /\ j' = j + 1
            /\ UNCHANGED <<pc, i>>
    /\ UNCHANGED <<input, pref, self_dict, list_of_ains, graph, k, packed, err, lastCall, run, prev>>

\* line 210: self.graph.nodes[ain_idx]['color'] can be read
HasColor(g, n) == n \in NodeSet(g) /\ n \in DOMAIN g.attr

\* lines 204-218: the drawing loop; it fails at the first index it cannot look up
Render ==
    /\ pc = "render"
    /\ err' = IF \A l \in DOMAIN levels : \A m \in DOMAIN levels[l] : HasColor(graph, levels[l][m])
              THEN "none"
              ELSE "KeyError"
    /\ pc' = "ready"
    /\ UNCHANGED <<input, pref, self_dict, list_of_ains, graph, k, levels, added_ains, i, j, packed, lastCall, run, prev>>

\* ------------------------------------- a further instance, same collection
\* AINGraph(list_of_ains) once more, after the instance has been constructed
\* and its intervals plotted: a fresh object, the comparison unchanged
Reconstruct ==
    /\ pc = "ready"
    /\ packed
    /\ run < MaxRuns
    /\ run' = run + 1
    /\ prev' = [graph |-> graph, levels |-> levels, packed |-> packed]
    /\ pc' = "new"
    /\ self_dict' = {}
    /\ list_of_ains' = <<>>
    /\ graph' = EmptyGraph
    /\ k' = 1
    /\ levels' = <<>>
    /\ added_ains' = {}
    /\ i' = 0
    /\ j' = 0
    /\ packed' = FALSE
    /\ err' = "none"
    /\ lastCall' = "none"
    /\ UNCHANGED <<input, pref>>

Next ==
    \/ CtorValidate
    \/ CtorEdge
    \/ CtorAttrs
    \/ \E new_ain \in Elements : AddAin(new_ain)
    \/ PlotIntervals
    \/ PackOuter
    \/ PackInner
    \/ Render
    \/ Reconstruct

Spec == Init /\ [][Next]_vars

\* ------------------------------------------------------------ properties
N == Len(list_of_ains)

Indices == 0..(N - 1)

\* the constructor has returned normally
Constructed == pc \in {"ready", "pack_outer", "pack_inner", "render"}

Edges == DOMAIN graph.weight

\* product of the two directional preference degrees of a_x and a_y
Product(x, y) == pref[<<list_of_ains[x + 1], list_of_ains[y + 1]>>] * pref[<<list_of_ains[y + 1], list_of_ains[x + 1]>>]

\* upper bound of one of a_x, a_y equal to the lower bound of the other
Touching(x, y) ==
    \/ list_of_ains[x + 1].upper = list_of_ains[y + 1].lower
    \/ list_of_ains[y + 1].upper = list_of_ains[x + 1].lower

Compatible(x, y) == Product(x, y) = 0 /\ ~Touching(x, y)

Members(l) == {levels[l][m] : m \in DOMAIN levels[l]}

\* C1: once the constructor has returned, the nodes of the graph are exactly
\* the indices 0..n-1 of the collection, isolated ones included.
C1_EveryIndexIsNode == Constructed => NodeSet(graph) = Indices

\* C2: after construction, for i < j the edge {i,j} is in the graph iff the
\* product of the two preference degrees is positive, its stored weight is
\* that product, and no edge joins an index to itself.
C2_EdgesAreProducts ==
    Constructed =>
        /\ \A x \in Indices : \A y \in Indices :
              x < y => /\ ({x, y} \in Edges <=> Product(x, y) > 0)
                       /\ ({x, y} \in Edges => graph.weight[{x, y}] = Product(x, y))
        /\ \A e \in Edges : Cardinality(e) = 2 /\ e \subseteq Indices

C2_Witness ==
    /\ Constructed
    /\ \E x \in Indices : \E y \in Indices : x < y /\ {x, y} \in Edges /\ graph.weight[{x, y}] > 0
    /\ \E x \in Indices : \E y \in Indices : x < y /\ {x, y} \notin Edges

\* C3: the levels the packing loop computes partition 0..n-1: every index is
\* at exactly one place of exactly one level, no level is empty, n = 0 gives
\* no level and n = 1 gives the one level [0].
C3_LevelsPartition ==
    packed =>
        /\ \A l \in DOMAIN levels : levels[l] # <<>> /\ Members(l) \subseteq Indices
        /\ \A x \in Indices :
              Cardinality({p \in UNION {{<<l, m>> : m \in DOMAIN levels[l]} : l \in DOMAIN levels} : levels[p[1]][p[2]] = x}) = 1
        /\ (N = 0 => levels = <<>>)
        /\ (N = 1 => levels = <<<<0>>>>)

C3_Witness ==
    /\ packed
    /\ Len(levels) >= 2
    /\ \E l \in DOMAIN levels : Len(levels[l]) >= 2

\* C4: any two distinct members of one level neither overlap nor touch.
C4_LevelsPairwiseCompatible ==
    packed => \A l \in DOMAIN levels : \A x \in Members(l) : \A y \in Members(l) :
                  x # y => Compatible(x, y)

\* C5: a collection with an element that is not an AIN makes the constructor
\* fail with ValueError, with no attribute of the instance set and no node or
\* edge added.
C5_FailFast ==
    /\ ((\E x \in DOMAIN input : ~IsAIN(input[x])) /\ pc # "new") =>
           /\ pc = "failed"
           /\ err = "ValueError"
    /\ err = "ValueError" =>
           /\ self_dict = {}
           /\ list_of_ains = <<>>
           /\ graph = EmptyGraph

C5_Witness ==
    /\ err = "ValueError"
    /\ Len(input) >= 2
    /\ IsAIN(input[1])
    /\ ~IsAIN(input[Len(input)])

C7_PlotIntervalsTotal == (lastCall = "plot_intervals" /\ pc = "ready") => err = "none"

\* C8: for [AIN(0,2), AIN(1,5), AIN(3,4)] the edges are {0,1} and {1,2} and
\* the levels are [[0,2],[1]].
C8_DocExample ==
    input = DocExample =>
        /\ Constructed => Edges = {{0, 1}, {1, 2}}
        /\ packed => levels = <<<<0, 2>>, <<1>>>>

C8_Witness == input = DocExample /\ packed /\ pc = "ready" /\ Edges # {}

C10_FirstFitOnSeeds ==
    packed => \A l \in DOMAIN levels :
        /\ levels[l] # <<>>
        /\ LET earlier == UNION {Members(m) : m \in 1..(l - 1)}
               seed == levels[l][1]
           IN /\ seed \in Indices \ earlier
              /\ \A x \in Indices \ earlier : seed <= x
              /\ \A m \in 1..(l - 1) : levels[m][1] < seed
              /\ \A x \in Members(l) :
                    /\ \A m \in 1..(l - 1) : ~Compatible(levels[m][1], x)
                    /\ x # seed => Compatible(seed, x)

C10_Witness ==
    /\ packed
    /\ Len(levels) >= 2
    /\ \E l \in 2..Len(levels) : \E m \in 2..Len(levels[l]) : levels[l][m] > levels[l][1]

====
